---- MODULE Spec2Model ----
(***************************************************************************)
(* Model of the medical diagnosis assistant backend:                       *)
(*   backend/app.py               the /api/analyze endpoint                *)
(*   backend/models/diagnosis.py  analyze_symptoms (retry loop around the  *)
(*                                inference service), the medical-history  *)
(*                                classifier and the rule-based section    *)
(*                                generators.                              *)
(*                                                                         *)
(* Python strings that the code inspects (lower(), `in`, int(), title())   *)
(* are sequences of one-character strings; texts the code only emits are   *)
(* TLA+ strings.  A Python value is a record [t, s, n]: its type name, its *)
(* characters when it is a str, its number when it is an int.  A function  *)
(* that can raise yields [ok |-> TRUE, val |-> v] or                       *)
(* [ok |-> FALSE, error |-> message].                                      *)
(***************************************************************************)
EXTENDS Integers, Sequences, FiniteSets, TLC

VARIABLES
    pc,            \* position of the request inside analyze / analyze_symptoms
    symptoms,      \* analyze_symptoms argument: list of Python values
    patient_info,  \* analyze_symptoms argument: dict (function on its keys)
    attempt,       \* loop variable of `for attempt in range(max_retries)`
    requests,      \* number of requests.post calls issued so far
    delays,        \* number of time.sleep(retry_delay) calls taken so far
    clock,         \* time-units spent sleeping
    log,           \* what each attempt ended with, in order
    result,        \* outcome of analyze_symptoms: a report or a raised exception
    response,      \* what analyze hands to jsonify
    history,       \* input of analyze_medical_history (history specification)
    hist_out,      \* its output
    age,           \* input of get_age_risk_factors (age specification)
    age_out        \* its output

vars == << pc, symptoms, patient_info, attempt, requests, delays, clock, log,
           result, response, history, hist_out, age, age_out >>

(***************************************************************************)
(* Bounds of the explored inputs.                                          *)
(***************************************************************************)
MaxSymptoms == 2
MaxFragments == 2
MaxAgeLen == 2

(***************************************************************************)
(* Python values and characters.                                           *)
(***************************************************************************)
PyStr(chars) == [t |-> "str", s |-> chars, n |-> 0]
PyInt(k) == [t |-> "int", s |-> << >>, n |-> k]
PyNone == [t |-> "NoneType", s |-> << >>, n |-> 0]

Ok(v) == [ok |-> TRUE, val |-> v]
Raise(msg) == [ok |-> FALSE, error |-> msg]

UpperAlpha == <<"A","B","C","D","E","F","G","H","I","J","K","L","M","N","O","P","Q","R","S","T","U","V","W","X","Y","Z">>
LowerAlpha == <<"a","b","c","d","e","f","g","h","i","j","k","l","m","n","o","p","q","r","s","t","u","v","w","x","y","z">>
Digits == <<"0","1","2","3","4","5","6","7","8","9">>

IndexIn(c, alphabet) ==
    IF \E i \in DOMAIN alphabet : alphabet[i] = c
    THEN CHOOSE i \in DOMAIN alphabet : alphabet[i] = c
    ELSE 0

IsCased(c) == IndexIn(c, UpperAlpha) # 0 \/ IndexIn(c, LowerAlpha) # 0

LowerChar(c) == IF IndexIn(c, UpperAlpha) # 0 THEN LowerAlpha[IndexIn(c, UpperAlpha)] ELSE c
UpperChar(c) == IF IndexIn(c, LowerAlpha) # 0 THEN UpperAlpha[IndexIn(c, LowerAlpha)] ELSE c

\* str.lower()
lower(chars) == [i \in DOMAIN chars |-> LowerChar(chars[i])]

\* str.replace('_', ' ')
replace_underscore(chars) == [i \in DOMAIN chars |-> IF chars[i] = "_" THEN " " ELSE chars[i]]

\* str.title(): a cased character is upper-cased after an uncased one (or at
\* the start) and lower-cased after a cased one.
title(chars) ==
    [i \in DOMAIN chars |->
        IF i = 1 \/ ~IsCased(chars[i - 1]) THEN UpperChar(chars[i]) ELSE LowerChar(chars[i])]

\* `keyword in text`: substring test
Contains(keyword, text) ==
    \E i \in 1..(Len(text) - Len(keyword) + 1) :
        SubSeq(text, i, i + Len(keyword) - 1) = keyword

\* the characters as one emitted text
RECURSIVE Text(_)
Text(chars) == IF chars = << >> THEN "" ELSE Head(chars) \o Text(Tail(chars))

\* truth value of a Python value (`not history`)
Truthy(v) ==
    CASE v.t = "str" -> v.s # << >>
      [] v.t = "int" -> v.n # 0
      [] OTHER -> FALSE

\* v.lower(): only str has the attribute
MethodLower(v) ==
    IF v.t = "str" THEN Ok(lower(v.s))
    ELSE Raise("'" \o v.t \o "' object has no attribute 'lower'")

\* dict.get(key, default)
Get(d, key, default) == IF key \in DOMAIN d THEN d[key] ELSE default

\* ', '.join(symptoms): TypeError on an item that is no str
RECURSIVE JoinChars(_)
JoinChars(items) ==
    IF items = << >> THEN << >>
    ELSE IF Len(items) = 1 THEN items[1].s
    ELSE items[1].s \o <<",", " ">> \o JoinChars(Tail(items))

join(items) ==
    IF \E i \in DOMAIN items : items[i].t # "str"
    THEN LET i == CHOOSE j \in DOMAIN items :
                      items[j].t # "str" /\ \A k \in 1..(j - 1) : items[k].t = "str"
         IN Raise("sequence item " \o ToString(i - 1) \o ": expected str instance, "
                  \o items[i].t \o " found")
    ELSE Ok(JoinChars(items))

(***************************************************************************)
(* String constants of the code.                                           *)
(***************************************************************************)
s_male == <<"m","a","l","e">>
s_female == <<"f","e","m","a","l","e">>
s_not_provided == <<"n","o","t"," ","p","r","o","v","i","d","e","d">>
Not_provided == PyStr(<<"N","o","t"," ","p","r","o","v","i","d","e","d">>)

(***************************************************************************)
(* analyze_medical_history and its six field generators.                   *)
(***************************************************************************)
\* the `conditions` dict, in its declaration (= iteration) order
conditions ==
    << [condition |-> <<"d","i","a","b","e","t","e","s">>,
        keywords |-> << <<"d","i","a","b","e","t","e","s">>,
                      <<"d","i","a","b","e","t","i","c">>,
                      <<"b","l","o","o","d"," ","s","u","g","a","r">>,
                      <<"i","n","s","u","l","i","n">> >>],
       [condition |-> <<"h","y","p","e","r","t","e","n","s","i","o","n">>,
        keywords |-> << <<"h","y","p","e","r","t","e","n","s","i","o","n">>,
                      <<"h","i","g","h"," ","b","l","o","o","d"," ","p","r","e","s","s","u","r","e">>,
                      <<"h","b","p">> >>],
       [condition |-> <<"h","e","a","r","t","_","d","i","s","e","a","s","e">>,
        keywords |-> << <<"h","e","a","r","t"," ","d","i","s","e","a","s","e">>,
                      <<"c","a","r","d","i","a","c">>,
                      <<"h","e","a","r","t"," ","a","t","t","a","c","k">>,
                      <<"a","n","g","i","n","a">> >>],
       [condition |-> <<"r","e","s","p","i","r","a","t","o","r","y">>,
        keywords |-> << <<"a","s","t","h","m","a">>,
                      <<"c","o","p","d">>,
                      <<"b","r","o","n","c","h","i","t","i","s">>,
                      <<"p","n","e","u","m","o","n","i","a">> >>],
       [condition |-> <<"a","r","t","h","r","i","t","i","s">>,
        keywords |-> << <<"a","r","t","h","r","i","t","i","s">>,
                      <<"j","o","i","n","t"," ","p","a","i","n">>,
                      <<"r","h","e","u","m","a","t","o","i","d">>,
                      <<"o","s","t","e","o","a","r","t","h","r","i","t","i","s">> >>],
       [condition |-> <<"m","e","n","t","a","l","_","h","e","a","l","t","h">>,
        keywords |-> << <<"d","e","p","r","e","s","s","i","o","n">>,
                      <<"a","n","x","i","e","t","y">>,
                      <<"b","i","p","o","l","a","r">>,
                      <<"s","c","h","i","z","o","p","h","r","e","n","i","a">> >>],
       [condition |-> <<"a","l","l","e","r","g","i","e","s">>,
        keywords |-> << <<"a","l","l","e","r","g","i","e","s">>,
                      <<"a","l","l","e","r","g","i","c">>,
                      <<"a","n","a","p","h","y","l","a","x","i","s">> >>],
       [condition |-> <<"c","a","n","c","e","r">>,
        keywords |-> << <<"c","a","n","c","e","r">>,
                      <<"t","u","m","o","r">>,
                      <<"m","a","l","i","g","n","a","n","c","y">>,
                      <<"o","n","c","o","l","o","g","y">> >>] >>

NoHistoryProvided ==
    [summary |-> "No medical history provided. Please provide medical history for better analysis.",
     risk_factors |-> "Unable to assess risk factors without medical history.",
     complications |-> "Unable to assess potential complications without medical history.",
     recommended_tests |-> "Standard screening tests recommended based on age and gender.",
     precautions |-> "General precautions recommended. Specific precautions require medical history.",
     monitoring |-> "Standard monitoring parameters recommended."]

\* `keyword in history.lower()`
KeywordHit_CaseSensitive(keyword, text) == Contains(keyword, text)

KeywordHit(keyword, text) == Contains(keyword, lower(text))

\* any(keyword in history.lower() for keyword in keywords)
AnyKeyword(keywords, text) == \E k \in DOMAIN keywords : KeywordHit(keywords[k], text)

\* the loop over conditions.items() appending to detected_conditions
RECURSIVE DetectFrom(_, _)
DetectFrom(i, text) ==
    IF i > Len(conditions) THEN << >>
    ELSE (IF AnyKeyword(conditions[i].keywords, text)
          THEN << conditions[i].condition >> ELSE << >>) \o DetectFrom(i + 1, text)

detected_conditions(text) == DetectFrom(1, text)

\* one "- <Title>-<suffix>\n" line per condition, appended in list order
RECURSIVE Lines(_, _)
Lines(conds, suffix) ==
    IF conds = << >> THEN ""
    ELSE "- " \o Text(title(replace_underscore(Head(conds)))) \o suffix \o "\n"
         \o Lines(Tail(conds), suffix)

generate_history_summary(conds) ==
    IF conds = << >>
    THEN "No specific medical conditions detected in the provided history."
    ELSE "Detected medical conditions:\n" \o Lines(conds, "")

generate_risk_factors(conds) ==
    IF conds = << >>
    THEN "Standard risk factors based on age and gender apply."
    ELSE "Additional risk factors based on medical history:\n"
         \o Lines(conds, "-related complications")

generate_complications(conds) ==
    IF conds = << >>
    THEN "Standard complication monitoring recommended."
    ELSE "Potential complications to monitor:\n" \o Lines(conds, "-related complications")

generate_recommended_tests(conds) ==
    IF conds = << >>
    THEN "Standard screening tests recommended."
    ELSE "Additional tests recommended based on medical history:\n"
         \o Lines(conds, "-specific monitoring")

generate_precautions(conds) ==
    IF conds = << >>
    THEN "Standard precautions recommended."
    ELSE "Additional precautions based on medical history:\n"
         \o Lines(conds, "-specific precautions")

generate_monitoring_plan(conds) ==
    IF conds = << >>
    THEN "Standard monitoring parameters recommended."
    ELSE "Additional monitoring parameters based on medical history:\n"
         \o Lines(conds, "-specific monitoring")

\* `not history or history.lower() == 'not provided'`; raises where
\* history.lower() does
analyze_medical_history(h) ==
    IF ~Truthy(h) THEN Ok(NoHistoryProvided)
    ELSE IF ~MethodLower(h).ok THEN MethodLower(h)
    ELSE IF MethodLower(h).val = s_not_provided THEN Ok(NoHistoryProvided)
    ELSE LET conds == detected_conditions(h.s)
         IN Ok([summary |-> generate_history_summary(conds),
                risk_factors |-> generate_risk_factors(conds),
                complications |-> generate_complications(conds),
                recommended_tests |-> generate_recommended_tests(conds),
                precautions |-> generate_precautions(conds),
                monitoring |-> generate_monitoring_plan(conds)])

(***************************************************************************)
(* Rule-based section generators.                                          *)
(***************************************************************************)
RECURSIVE DigitsValue(_)
DigitsValue(chars) ==
    IF chars = << >> THEN 0
    ELSE 10 * DigitsValue(SubSeq(chars, 1, Len(chars) - 1))
         + (IndexIn(chars[Len(chars)], Digits) - 1)

RECURSIVE Strip(_)
Strip(chars) ==
    IF chars = << >> THEN chars
    ELSE IF Head(chars) = " " THEN Strip(Tail(chars))
    ELSE IF chars[Len(chars)] = " " THEN Strip(SubSeq(chars, 1, Len(chars) - 1))
    ELSE chars

\* int(x): a str is stripped, may carry one sign, and must then be all digits;
\* None is a TypeError
int(v) ==
    CASE v.t = "int" -> Ok(v.n)
      [] v.t = "str" ->
            LET body == Strip(v.s)
                signed == body # << >> /\ Head(body) \in {"-", "+"}
                digits == IF signed THEN Tail(body) ELSE body
            IN IF digits # << >> /\ \A i \in DOMAIN digits : IndexIn(digits[i], Digits) # 0
               THEN Ok(IF signed /\ Head(body) = "-"
                       THEN 0 - DigitsValue(digits) ELSE DigitsValue(digits))
               ELSE Raise("invalid literal for int() with base 10")
      [] OTHER -> Raise("int() argument must be a string, a bytes-like object or a number, not '"
                        \o v.t \o "'")

Pediatric == "Pediatric considerations, developmental factors, growth monitoring"
Adult == "Adult risk factors, lifestyle-related conditions, occupational health"
Geriatric == "Geriatric considerations, age-related conditions, polypharmacy risks"
AgeUndetermined == "Age-specific risk factors cannot be determined"

get_age_risk_factors_AdultFrom19(a) ==
    LET age_num == int(a)
    IN IF ~age_num.ok THEN AgeUndetermined
       ELSE IF age_num.val <= 18 THEN Pediatric
       ELSE IF age_num.val < 65 THEN Adult
       ELSE Geriatric

\* the bare `except:` maps every failure of int(age) to the fallback text
get_age_risk_factors(a) ==
    LET age_num == int(a)
    IN IF ~age_num.ok THEN AgeUndetermined
       ELSE IF age_num.val < 18 THEN Pediatric
       ELSE IF age_num.val < 65 THEN Adult
       ELSE Geriatric

\* gender = gender.lower() comes first and raises on None
get_gender_considerations(gender) ==
    LET g == MethodLower(gender)
    IN IF ~g.ok THEN g
       ELSE IF g.val = s_male
            THEN Ok("Male-specific conditions, hormonal factors, prostate health")
       ELSE IF g.val = s_female
            THEN Ok("Female-specific conditions, hormonal factors, reproductive health")
       ELSE Ok("General health considerations")

get_history_impact(h) ==
    IF ~Truthy(h) THEN Ok("Medical history impact cannot be assessed")
    ELSE IF ~MethodLower(h).ok THEN MethodLower(h)
    ELSE IF MethodLower(h).val = s_not_provided
         THEN Ok("Medical history impact cannot be assessed")
    ELSE Ok("Consider impact of existing conditions on current symptoms")

\* the generators that return one fixed text whatever their arguments
get_diet_recommendations(s, p) ==
    "Balanced diet with emphasis on whole foods, adequate hydration, and appropriate portion sizes"
get_exercise_recommendations(s, p) ==
    "Regular moderate exercise as tolerated, with appropriate rest periods and gradual progression"
get_stress_management(s, p) ==
    "Regular relaxation techniques, adequate sleep, and stress-reduction activities"
FixedSections(s) ==
    [acute_complications |->
        "Monitor for signs of deterioration, systemic involvement, and emergency conditions",
     chronic_implications |->
        "Consider long-term health impact, quality of life factors, and chronic disease management",
     screening_tests |-> "Basic blood work, vital signs monitoring, and relevant imaging studies",
     additional_tests |-> "Specialized testing based on specific symptoms and risk factors",
     immediate_interventions |->
        "Supportive care, symptom management, and monitoring of vital signs",
     long_term_management |->
        "Lifestyle modifications, preventive measures, and regular health monitoring",
     monitoring_parameters |-> "Vital signs, symptom progression, and response to interventions",
     referral_criteria |-> "Refer to appropriate specialist if symptoms persist or worsen"]

(***************************************************************************)
(* The two reports of analyze_symptoms.  The `analysis` f-string is kept   *)
(* as its skeleton's name and the values interpolated into it; an          *)
(* interpolated call that raises makes the whole expression raise, the     *)
(* first one in source order.                                              *)
(***************************************************************************)
generate_detailed_analysis(s, p) ==
    LET joined == join(s)
        gender == get_gender_considerations(Get(p, "gender", PyNone))
        impact == get_history_impact(Get(p, "medical_history", PyNone))
    IN IF ~joined.ok THEN joined
       ELSE IF ~gender.ok THEN gender
       ELSE IF ~impact.ok THEN impact
       ELSE Ok([analysis |->
                    [skeleton |-> "fallback",
                     age |-> Get(p, "age", Not_provided),
                     gender |-> Get(p, "gender", Not_provided),
                     medical_history |-> Get(p, "medical_history", Not_provided),
                     symptoms |-> joined.val,
                     age_risk |-> get_age_risk_factors(Get(p, "age", PyNone)),
                     gender_considerations |-> gender.val,
                     history_impact |-> impact.val,
                     sections |-> FixedSections(s)],
                symptoms_analyzed |-> s,
                patient_info_used |-> p])

AugmentedReport_NoRecommendations(s, p, summary_text) ==
    LET history_analysis == analyze_medical_history(Get(p, "medical_history", PyStr(<< >>)))
        joined == join(s)
        gender == get_gender_considerations(Get(p, "gender", PyNone))
    IN IF ~history_analysis.ok THEN history_analysis
       ELSE IF ~joined.ok THEN joined
       ELSE IF ~gender.ok THEN gender
       ELSE Ok([analysis |->
                    [skeleton |-> "augmented",
                     age |-> Get(p, "age", Not_provided),
                     gender |-> Get(p, "gender", Not_provided),
                     symptoms |-> joined.val,
                     differential |-> summary_text,
                     age_risk |-> get_age_risk_factors(Get(p, "age", PyNone)),
                     gender_considerations |-> gender.val,
                     sections |-> FixedSections(s)],
                symptoms_analyzed |-> s,
                patient_info_used |-> p,
                history_analysis |-> history_analysis.val])

\* what follows a 200 response whose payload holds summary_text: history
\* analysis, the formatted text, the returned dict
AugmentedReport(s, p, summary_text) ==
    LET history_analysis == analyze_medical_history(Get(p, "medical_history", PyStr(<< >>)))
        joined == join(s)
        gender == get_gender_considerations(Get(p, "gender", PyNone))
    IN IF ~history_analysis.ok THEN history_analysis
       ELSE IF ~joined.ok THEN joined
       ELSE IF ~gender.ok THEN gender
       ELSE Ok([analysis |->
                    [skeleton |-> "augmented",
                     age |-> Get(p, "age", Not_provided),
                     gender |-> Get(p, "gender", Not_provided),
                     symptoms |-> joined.val,
                     differential |-> summary_text,
                     age_risk |-> get_age_risk_factors(Get(p, "age", PyNone)),
                     gender_considerations |-> gender.val,
                     sections |-> FixedSections(s)],
                symptoms_analyzed |-> s,
                patient_info_used |-> p,
                history_analysis |-> history_analysis.val,
                recommendations |->
                    [diet |-> get_diet_recommendations(s, p),
                     exercise |-> get_exercise_recommendations(s, p),
                     stress |-> get_stress_management(s, p)]])

(***************************************************************************)
(* The retry loop of analyze_symptoms.                                     *)
(***************************************************************************)
max_retries == 3
retry_delay == 5

\* what one requests.post can end with
ServiceOutcomes == {"503", "http_error", "network_error", "malformed_payload", "ok"}

SummaryText == "model summary"

\* the try body of one attempt, from requests.post to the return:
\* [ok |-> TRUE, val |-> report], a raised exception, or the 503 branch
TryBody(outcome, s, p) ==
    CASE outcome = "network_error" -> Raise("ConnectionError")
      [] outcome = "503" -> [ok |-> FALSE, error |-> "", loading |-> TRUE]
      [] outcome = "http_error" -> Raise("API request failed with status code 500")
      [] outcome = "malformed_payload" -> Raise("KeyError: 'summary_text'")
      [] OTHER -> AugmentedReport(s, p, SummaryText)

SleepDuration_Backoff(n) == retry_delay * (n + 1)

\* time.sleep(retry_delay)
SleepDuration(n) == retry_delay

\* both the 503 branch and the except clause: sleep and continue while
\* attempt < max_retries - 1, else return generate_detailed_analysis(...)
AfterFailure(n) == IF n < max_retries - 1 THEN "sleep" ELSE "fallback"

except_Exception_Reraise(error) == [unhandled |-> error]

\* analyze's `except Exception as e`: jsonify(success False, error str(e)), 500
except_Exception(error) == [success |-> FALSE, error |-> error, status |-> 500]

(***************************************************************************)
(* Request bodies.                                                         *)
(***************************************************************************)
s_fever == <<"f","e","v","e","r">>
s_40 == <<"4","0">>
s_abc == <<"a","b","c">>
s_Male == <<"M","a","l","e">>
s_other == <<"o","t","h","e","r">>
s_diabetes == <<"d","i","a","b","e","t","e","s">>
s_a_cold == <<"a"," ","c","o","l","d">>

SymptomItems == {PyStr(s_fever), PyInt(7)}
SymptomLists == UNION {[1..n -> SymptomItems] : n \in 0..MaxSymptoms}

Keys == {"age", "gender", "medical_history"}
FieldValues(k) ==
    CASE k = "age" -> {PyStr(s_40), PyStr(s_abc)}
      [] k = "gender" -> {PyStr(s_Male), PyStr(s_other)}
      [] OTHER -> {PyStr(<< >>), Not_provided, PyStr(s_diabetes), PyStr(s_a_cold), PyInt(5)}

PatientInfos ==
    UNION {{f \in [D -> UNION {FieldValues(k) : k \in Keys}] :
                \A k \in D : f[k] \in FieldValues(k)} : D \in SUBSET Keys}

\* the JSON bodies: none at all, or an object holding any of the two keys
Bodies ==
    {[json |-> FALSE, dict |-> [k \in {} |-> << >>]]}
    \cup {[json |-> TRUE, dict |-> [k \in {} |-> << >>]]}
    \cup {[json |-> TRUE, dict |-> [k \in {"symptoms"} |-> s]] : s \in SymptomLists}
    \cup {[json |-> TRUE, dict |-> [k \in {"patient_info"} |-> p]] : p \in PatientInfos}
    \cup {[json |-> TRUE,
           dict |-> [k \in {"symptoms", "patient_info"} |-> IF k = "symptoms" THEN s ELSE p]] :
              s \in SymptomLists, p \in PatientInfos}

NoResult == [ok |-> FALSE, error |-> "", pending |-> TRUE]
NoResponse == [pending |-> TRUE]
Unused == [unused |-> TRUE]

\* the request-scoped values before any request
NoRequest ==
    /\ symptoms = << >>
    /\ patient_info = [k \in {} |-> PyNone]
    /\ attempt = 0
    /\ requests = 0
    /\ delays = 0
    /\ clock = 0
    /\ log = << >>
    /\ result = NoResult
    /\ response = NoResponse

Init ==
    /\ pc = "idle"
    /\ NoRequest
    /\ history = Unused
    /\ hist_out = Unused
    /\ age = Unused
    /\ age_out = Unused

\* analyze up to the first requests.post: request.json, the two data.get,
\* and the prompt of analyze_symptoms, whose join runs outside the try
Analyze(data) ==
    /\ pc = "idle"
    /\ IF ~data.json
       THEN \* request.json yields None (data.get then raises) or raises itself,
            \* by the Flask version: either way the except clause answers
            /\ \E e \in {"'NoneType' object has no attribute 'get'",
                         "415 Unsupported Media Type"} :
                   response' = except_Exception(e)
            /\ pc' = "done"
            /\ UNCHANGED << symptoms, patient_info, result >>
       ELSE /\ symptoms' = Get(data.dict, "symptoms", << >>)
            /\ patient_info' = Get(data.dict, "patient_info", [k \in {} |-> PyNone])
            /\ IF join(symptoms').ok
               THEN pc' = "request" /\ UNCHANGED result
               ELSE pc' = "respond" /\ result' = join(symptoms')
            /\ UNCHANGED response
    /\ UNCHANGED << attempt, requests, delays, clock, log,
                    history, hist_out, age, age_out >>

\* one iteration of the for loop, up to its sleep or its return
Attempt(outcome) ==
    /\ pc = "request"
    /\ attempt < max_retries
    /\ requests' = requests + 1
    /\ LET r == TryBody(outcome, symptoms, patient_info)
       IN /\ log' = Append(log, [service |-> outcome, raised |-> ~r.ok /\ outcome # "503"])
          /\ IF r.ok
             THEN pc' = "respond" /\ result' = r
             ELSE pc' = AfterFailure(attempt) /\ UNCHANGED result
    /\ UNCHANGED << symptoms, patient_info, attempt, delays, clock, response,
                    history, hist_out, age, age_out >>

\* time.sleep(retry_delay); continue
Sleep ==
    /\ pc = "sleep"
    /\ delays' = delays + 1
    /\ clock' = clock + SleepDuration(attempt)
    /\ attempt' = attempt + 1
    /\ pc' = "request"
    /\ UNCHANGED << symptoms, patient_info, requests, log, result, response,
                    history, hist_out, age, age_out >>

\* return generate_detailed_analysis(symptoms, patient_info).  The 503
\* branch's return sits inside the try: when the call raises there, the
\* except clause makes the same call again, outside any try, with the same
\* outcome.  The return after the loop is never reached.
Fallback ==
    /\ pc = "fallback"
    /\ result' = generate_detailed_analysis(symptoms, patient_info)
    /\ pc' = "respond"
    /\ UNCHANGED << symptoms, patient_info, attempt, requests, delays, clock, log,
                    response, history, hist_out, age, age_out >>

\* analyze's return: jsonify of the diagnosis, or the except clause
Respond ==
    /\ pc = "respond"
    /\ response' = IF result.ok
                   THEN [success |-> TRUE, diagnosis |-> result.val]
                   ELSE except_Exception(result.error)
    /\ pc' = "done"
    /\ UNCHANGED << symptoms, patient_info, attempt, requests, delays, clock, log,
                    result, history, hist_out, age, age_out >>

Next ==
    \/ \E data \in Bodies : Analyze(data)
    \/ \E outcome \in ServiceOutcomes : Attempt(outcome)
    \/ Sleep
    \/ Fallback
    \/ Respond

Spec == Init /\ [][Next]_vars

(***************************************************************************)
(* analyze_medical_history on its own: the history is a text made of up    *)
(* to MaxFragments fragments joined by ", ".                               *)
(***************************************************************************)
Fragments ==
    << <<"d","i","a","b","e","t","e","s">>,
       <<"h","i","g","h"," ","b","l","o","o","d"," ","p","r","e","s","s","u","r","e">>,
       <<"H","B","P">>,
       <<"H","e","a","r","t"," ","A","t","t","a","c","k">>,
       <<"A","s","t","h","m","a">>,
       <<"o","s","t","e","o","a","r","t","h","r","i","t","i","s">>,
       <<"A","n","x","i","e","t","y">>,
       <<"A","L","L","E","R","G","I","C">>,
       <<"t","u","m","o","r">>,
       <<"a"," ","c","o","l","d">>,
       <<"N","o","t"," ","P","r","o","v","i","d","e","d">> >>

RECURSIVE JoinFragments(_)
JoinFragments(ixs) ==
    IF ixs = << >> THEN << >>
    ELSE IF Len(ixs) = 1 THEN Fragments[ixs[1]]
    ELSE Fragments[ixs[1]] \o <<",", " ">> \o JoinFragments(Tail(ixs))

Histories ==
    {PyStr(JoinFragments(ixs)) :
        ixs \in UNION {[1..n -> DOMAIN Fragments] : n \in 0..MaxFragments}}

Pending == [done |-> FALSE]

InitHistory ==
    /\ pc = "off"
    /\ NoRequest
    /\ history \in Histories
    /\ hist_out = Pending
    /\ age = Unused
    /\ age_out = Unused

AnalyzeHistory ==
    /\ hist_out = Pending
    /\ hist_out' = [done |-> TRUE, out |-> analyze_medical_history(history)]
    /\ UNCHANGED << pc, symptoms, patient_info, attempt, requests, delays, clock, log,
                    result, response, history, age, age_out >>

NextHistory == AnalyzeHistory

SpecHistory == InitHistory /\ [][NextHistory]_vars

(***************************************************************************)
(* get_age_risk_factors on its own: the age is missing (None), a JSON      *)
(* number, or a text of up to MaxAgeLen characters.                        *)
(***************************************************************************)
AgeAlphabet == {"1", "4", "5", "6", "7", "8", "-", "a", " "}

Ages ==
    {PyNone, PyInt(17), PyInt(70)}
    \cup {PyStr(chars) : chars \in UNION {[1..n -> AgeAlphabet] : n \in 0..MaxAgeLen}}

InitAge ==
    /\ pc = "off"
    /\ NoRequest
    /\ history = Unused
    /\ hist_out = Unused
    /\ age \in Ages
    /\ age_out = Pending

AgeRiskFactors ==
    /\ age_out = Pending
    /\ age_out' = [done |-> TRUE, out |-> get_age_risk_factors(age)]
    /\ UNCHANGED << pc, symptoms, patient_info, attempt, requests, delays, clock, log,
                    result, response, history, hist_out, age >>

NextAge == AgeRiskFactors

SpecAge == InitAge /\ [][NextAge]_vars

(***************************************************************************)
(* Properties.                                                             *)
(***************************************************************************)
\* analyze_symptoms has returned or raised
Finished == "pending" \notin DOMAIN result

\* analyze_symptoms has been entered with the arguments held in symptoms and
\* patient_info (a request without a JSON body ends before the call)
Called == pc \notin {"idle", "off"} /\ (pc = "done" => Finished)

AllStrings == \A i \in DOMAIN symptoms : symptoms[i].t = "str"

\* symptoms a list of strings; age, gender and medical_history each a string
\* or absent
WellTyped == AllStrings /\ \A k \in DOMAIN patient_info : patient_info[k].t = "str"

FallbackKeys == {"analysis", "symptoms_analyzed", "patient_info_used"}
AugmentedKeys == FallbackKeys \cup {"history_analysis", "recommendations"}

IsFallbackReport(r) == DOMAIN r = FallbackKeys /\ r.analysis.skeleton = "fallback"

IsAugmentedReport(r) ==
    /\ DOMAIN r = AugmentedKeys
    /\ r.analysis.skeleton = "augmented"
    /\ DOMAIN r.recommendations = {"diet", "exercise", "stress"}

ServiceFailed(i) == log[i].service # "ok"

AllAttemptsFailed == Len(log) = max_retries /\ \A i \in DOMAIN log : ServiceFailed(i)

\* C1: analyze_symptoms never raises: for every list of string symptoms, every
\* patient_info whose age, gender and medical_history are each a string or
\* absent, and every sequence of service outcomes, the call returns a report;
\* and generate_detailed_analysis returns a report for every such input.
C1_ReportGenerationNeverRaises ==
    (Called /\ WellTyped) =>
        /\ generate_detailed_analysis(symptoms, patient_info).ok
        /\ Finished => result.ok

\* C2: analyze never lets a fault escape: whatever the body and the service
\* outcomes, a request that is not answered yet is at a position of the
\* handler with a next step, and an answered one holds a result whose success
\* field is a boolean: success = TRUE with the diagnosis analyze_symptoms
\* returned, success = FALSE with the description of the error raised.
C2_AnalyzeBoundary ==
    /\ pc \in {"idle", "request", "sleep", "fallback", "respond", "done"}
    /\ pc = "request" => attempt < max_retries
    /\ pc # "done" => response = NoResponse
    /\ pc = "done" =>
        /\ "success" \in DOMAIN response
        /\ response.success \in BOOLEAN
        /\ response.success =>
              /\ DOMAIN response = {"success", "diagnosis"}
              /\ result.ok
              /\ response.diagnosis = result.val
        /\ ~response.success =>
              /\ "error" \in DOMAIN response
              /\ ~result.ok
              /\ Finished => response.error = result.error

C2_AnalyzeSymptomsRaised_Witness ==
    /\ pc = "done"
    /\ requests = max_retries
    /\ Finished /\ ~result.ok
    /\ response.success = FALSE
    /\ response.error = "'NoneType' object has no attribute 'lower'"

\* C3: in one call the service is requested at most 3 times, one request
\* after another, and once 3 attempts have failed, in any mix of failure
\* modes, the call ends with the fallback report and no error is propagated.
C3_BudgetThenFallbackReport ==
    /\ requests <= 3
    /\ Len(log) = requests
    /\ (AllAttemptsFailed /\ pc \notin {"request", "sleep"}) =>
          /\ pc \in {"fallback", "respond", "done"}
          /\ Finished => (result.ok /\ IsFallbackReport(result.val))

\* C4: an exception raised after a successful, well-formed service response
\* (in history analysis or formatting) is converted to the fallback report:
\* that attempt is the call's last one, no delay follows it, and the call
\* returns the fallback report.
C4_PostSuccessExceptionGoesToFallback ==
    \A i \in DOMAIN log :
        (log[i].service = "ok" /\ log[i].raised) =>
            /\ i = Len(log)
            /\ pc # "sleep"
            /\ delays = i - 1
            /\ Finished => (result.ok /\ IsFallbackReport(result.val))

\* gender a string, medical_history a string or absent
WellFormed ==
    /\ AllStrings
    /\ "gender" \in DOMAIN patient_info /\ patient_info["gender"].t = "str"
    /\ "medical_history" \in DOMAIN patient_info => patient_info["medical_history"].t = "str"

\* C5: with well-formed inputs, when the first successful response arrives on
\* attempt k after k-1 failed attempts of any kind, analyze_symptoms returns
\* the model-augmented report after exactly k requests and exactly k-1 delays
\* of 5 time-units each.
C5_SuccessOnAttemptK ==
    \A k \in 1..3 :
        (/\ Called /\ WellFormed
         /\ Len(log) = k
         /\ log[k].service = "ok"
         /\ \A i \in 1..(k - 1) : ServiceFailed(i)) =>
            /\ Finished /\ result.ok
            /\ IsAugmentedReport(result.val)
            /\ requests = k
            /\ delays = k - 1
            /\ clock = 5 * (k - 1)
            /\ pc = "done" => (response.success /\ response.diagnosis = result.val)

C5_SecondAttempt_Witness ==
    /\ pc = "done"
    /\ WellFormed
    /\ Len(log) = 2
    /\ log[1].service = "503"
    /\ log[2].service = "ok"
    /\ delays = 1
    /\ response.success
    /\ IsAugmentedReport(response.diagnosis)

\* C6: a returned report has one of two shapes: it holds history_analysis and
\* recommendations (diet, exercise, stress) exactly when the last attempt got
\* a successful, well-formed response and the augmented report was assembled;
\* when all 3 attempts failed it is the fallback skeleton with neither field.
C6_TwoReportShapes ==
    (Finished /\ result.ok) =>
        LET r == result.val
            assembled == log # << >> /\ log[Len(log)].service = "ok" /\ ~log[Len(log)].raised
        IN /\ IsFallbackReport(r) \/ IsAugmentedReport(r)
           /\ "history_analysis" \in DOMAIN r <=> assembled
           /\ "recommendations" \in DOMAIN r <=> assembled
           /\ assembled => r.history_analysis =
                 analyze_medical_history(Get(patient_info, "medical_history", PyStr(<< >>))).val
           /\ AllAttemptsFailed => IsFallbackReport(r)

C6_AllFailedFallback_Witness ==
    /\ pc = "done"
    /\ AllAttemptsFailed
    /\ response.success
    /\ IsFallbackReport(response.diagnosis)
    /\ "history_analysis" \notin DOMAIN response.diagnosis

\* C10: delays are taken only between attempts: never after the last request
\* of a call, so a call whose 3 attempts all fail takes exactly 2 delays (10
\* time-units), goes to the fallback without waiting and returns the
\* fallback report.
C10_DelaysOnlyBetweenAttempts ==
    /\ delays = (IF pc = "request" THEN requests ELSE IF requests = 0 THEN 0 ELSE requests - 1)
    /\ clock = 5 * delays
    /\ AllAttemptsFailed =>
          /\ delays = 2 /\ clock = 10
          /\ pc \in {"fallback", "respond", "done"}
          /\ Finished => (result.ok /\ IsFallbackReport(result.val))

(***************************************************************************)
(* Properties of analyze_medical_history (SpecHistory).                    *)
(***************************************************************************)
\* the categories with a keyword occurring in the text, letter case ignored,
\* as positions of the declaration order
Matched(text) ==
    {c \in DOMAIN conditions :
        \E k \in DOMAIN conditions[c].keywords :
            LET kw == conditions[c].keywords[k]
            IN \E i \in 1..Len(text) :
                  /\ i + Len(kw) - 1 <= Len(text)
                  /\ \A j \in 1..Len(kw) : LowerChar(text[i + j - 1]) = kw[j]}

\* those categories' names, by ascending declaration position
InDeclarationOrder(cs) ==
    [j \in 1..Cardinality(cs) |->
        conditions[CHOOSE c \in cs : Cardinality({d \in cs : d < c}) = j - 1].condition]

HistoryProvided == history.s # << >> /\ lower(history.s) # s_not_provided

s_hbp_diabetes ==
    <<"h","i","g","h"," ","b","l","o","o","d"," ","p","r","e","s","s","u","r","e",
      ",", " ", "d","i","a","b","e","t","e","s">>

\* C7: for a history that is neither empty nor the sentinel, the detected
\* categories are exactly those with a keyword occurring in the text as a
\* case-insensitive substring, and each of the six fields lists them in the
\* declaration order whatever their order in the text; "high blood
\* pressure, diabetes" yields diabetes then hypertension.
C7_DetectedInDeclarationOrder ==
    (hist_out # Pending /\ HistoryProvided) =>
        LET cs == InDeclarationOrder(Matched(history.s))
            out == hist_out.out.val
        IN /\ hist_out.out.ok
           /\ detected_conditions(history.s) = cs
           /\ cs # << >> =>
                /\ out.summary = "Detected medical conditions:\n" \o Lines(cs, "")
                /\ out.risk_factors = "Additional risk factors based on medical history:\n"
                                      \o Lines(cs, "-related complications")
                /\ out.complications = "Potential complications to monitor:\n"
                                       \o Lines(cs, "-related complications")
                /\ out.recommended_tests =
                       "Additional tests recommended based on medical history:\n"
                       \o Lines(cs, "-specific monitoring")
                /\ out.precautions = "Additional precautions based on medical history:\n"
                                     \o Lines(cs, "-specific precautions")
                /\ out.monitoring =
                       "Additional monitoring parameters based on medical history:\n"
                       \o Lines(cs, "-specific monitoring")
           /\ history.s = s_hbp_diabetes =>
                /\ out.summary = "Detected medical conditions:\n- Diabetes\n- Hypertension\n"
                /\ out.precautions =
                       "Additional precautions based on medical history:\n"
                       \o "- Diabetes-specific precautions\n- Hypertension-specific precautions\n"

C7_HbpThenDiabetes_Witness ==
    /\ hist_out # Pending
    /\ history.s = s_hbp_diabetes
    /\ hist_out.out.val.summary = "Detected medical conditions:\n- Diabetes\n- Hypertension\n"

HistoryFields ==
    {"summary", "risk_factors", "complications", "recommended_tests", "precautions",
     "monitoring"}

\* C8: a provided history that matches no keyword set yields a HistoryAnalysis
\* that differs from the no-history canned set and reuses none of its canned
\* strings in any of the six fields.
C8_NoMatchReusesNoCannedText ==
    (hist_out # Pending /\ HistoryProvided /\ Matched(history.s) = {}) =>
        /\ hist_out.out.val # NoHistoryProvided
        /\ \A f \in HistoryFields, g \in HistoryFields :
              hist_out.out.val[f] # NoHistoryProvided[g]

(***************************************************************************)
(* Properties of get_age_risk_factors (SpecAge).                           *)
(***************************************************************************)
\* C9: get_age_risk_factors is total; an age that parses as an integer n gets
\* the pediatric text when n < 18, the adult text when 18 <= n <= 64 and the
\* geriatric text when n >= 65; a non-numeric or missing age gets the
\* "cannot be determined" text.
C9_AgeBuckets ==
    age_out # Pending =>
        LET n == int(age)
            out == age_out.out
        IN /\ out \in {Pediatric, Adult, Geriatric, AgeUndetermined}
           /\ (n.ok /\ n.val < 18) => out = Pediatric
           /\ (n.ok /\ 18 <= n.val /\ n.val <= 64) => out = Adult
           /\ (n.ok /\ n.val >= 65) => out = Geriatric
           /\ ~n.ok => out = AgeUndetermined
           /\ age = PyStr(<<"1", "7">>) => out = Pediatric
           /\ age = PyStr(<<"1", "8">>) => out = Adult
           /\ age = PyStr(<<"6", "4">>) => out = Adult
           /\ age = PyStr(<<"6", "5">>) => out = Geriatric
           /\ age = PyStr(<<"-", "5">>) => out = Pediatric
           /\ age \in {PyNone, PyStr(<< >>), PyStr(<<"a">>), PyStr(<<"1", "a">>)} =>
                 out = AgeUndetermined

C9_Boundary18_Witness ==
    /\ age_out # Pending
    /\ age = PyStr(<<"1", "8">>)
    /\ age_out.out = Adult

\* the request budget and the delay accounting on their own
RetryAccounting ==
    /\ requests <= max_retries
    /\ delays <= max_retries - 1
    /\ delays = (IF pc = "request" THEN requests ELSE IF requests = 0 THEN 0 ELSE requests - 1)
    /\ clock = retry_delay * delays
    /\ pc = "fallback" => (requests = max_retries /\ delays = max_retries - 1)
====
